---- MODULE Spec2Model ----
(***************************************************************************)
(* ERA Reliability Monitoring dashboard (src/data.py).                     *)
(*                                                                         *)
(* The script reads one worksheet per month from a spreadsheet, normalises *)
(* every row, concatenates the rows into df_all, computes the SAIDI /      *)
(* SAIFI / CAIDI tables per day, week and month, and then renders the      *)
(* tables selected by the sidebar widgets.                                 *)
(*                                                                         *)
(* Encoding.  A string is a sequence of one-character strings (NBSP stands *)
(* for U+00A0).  A nullable value (NaN, NaT, None) is a sequence of length *)
(* at most one: <<>> is null, <<v>> is v.  A float is an extended rational *)
(* [num, den] in lowest terms with den >= 0; den = 0 encodes the IEEE      *)
(* values nan (num = 0), +inf (num = 1) and -inf (num = -1).  Timestamps   *)
(* are whole hours since a Sunday 00:00 that starts week 0 of the year.    *)
(* A DataFrame is a sequence of rows, a metrics table the set of its rows  *)
(* (one per group key).  The Elapsed Time and Fault Category columns,      *)
(* which only the box plot reads, are left out.                            *)
(***************************************************************************)
EXTENDS Integers, Sequences, FiniteSets, TLC

VARIABLES
    sheets,            \* spreadsheet.worksheets(): <<[title, rows]>>, rows as get_all_records() returns them
    pc,                \* position of the script: start, loaded, built, rendered, error
    df_all,            \* the concatenated, normalised rows
    daily_metrics,     \* compute_metrics(df_all, ["Feeder Name", "Month", "Date"])
    weekly_metrics,    \* compute_metrics(df_all, ["Feeder Name", "Month", "Week"])
    monthly_metrics,   \* compute_metrics(df_all, ["Feeder Name", "Month"])
    period,            \* sidebar radio
    selected_month,    \* sidebar selectbox
    selected_feeder,   \* sidebar selectbox
    selected_week,     \* sidebar selectbox (Weekly only), else None
    metrics_df,        \* the table of the chosen period
    group_field,       \* "Date", "Week" or "Month"
    filtered_metrics,  \* rows behind the three metric cards
    feeder_data,       \* rows of the per-feeder bar chart
    trend_data,        \* rows of the trend line chart
    df_month,          \* rows of the fault-category box plot
    map_df             \* rows of the map

vars == <<sheets, pc, df_all, daily_metrics, weekly_metrics, monthly_metrics,
          period, selected_month, selected_feeder, selected_week, metrics_df,
          group_field, filtered_metrics, feeder_data, trend_data, df_month, map_df>>

----------------------------------------------------------------------------
(* Nullable values *)

Null == <<>>
Some(v) == <<v>>
IsNull(x) == x = <<>>
NotNull(x) == x # <<>>
Val(x) == x[1]

----------------------------------------------------------------------------
(* Characters and strings *)

NBSP == "NBSP"
LowerLetters == <<"a","b","c","d","e","f","g","h","i","j","k","l","m",
                  "n","o","p","q","r","s","t","u","v","w","x","y","z">>
UpperLetters == <<"A","B","C","D","E","F","G","H","I","J","K","L","M",
                  "N","O","P","Q","R","S","T","U","V","W","X","Y","Z">>

IsLower(c) == \E i \in DOMAIN LowerLetters : LowerLetters[i] = c
IsUpper(c) == \E i \in DOMAIN UpperLetters : UpperLetters[i] = c
IsCased(c) == IsLower(c) \/ IsUpper(c)
IsSpace(c) == c \in {" ", NBSP, "\t"}

ToUpper(c) ==
    IF IsLower(c)
    THEN UpperLetters[CHOOSE i \in DOMAIN LowerLetters : LowerLetters[i] = c]
    ELSE c
ToLower(c) ==
    IF IsUpper(c)
    THEN LowerLetters[CHOOSE i \in DOMAIN UpperLetters : UpperLetters[i] = c]
    ELSE c

\* str.strip(): drop leading and trailing whitespace.
RECURSIVE lstrip(_)
lstrip(s) == IF s # <<>> /\ IsSpace(Head(s)) THEN lstrip(Tail(s)) ELSE s
RECURSIVE rstrip(_)
rstrip(s) ==
    IF s # <<>> /\ IsSpace(s[Len(s)]) THEN rstrip(SubSeq(s, 1, Len(s) - 1)) ELSE s
strip(s) == rstrip(lstrip(s))

\* unicodedata.normalize("NFKD", s): U+00A0 decomposes to U+0020; ASCII is unchanged.
normalize_NFKD(s) == [i \in DOMAIN s |-> IF s[i] = NBSP THEN " " ELSE s[i]]

\* str.replace(old, new) for one-character old and new.
replace(s, old, new) == [i \in DOMAIN s |-> IF s[i] = old THEN new ELSE s[i]]

\* str.split(): the maximal runs of non-whitespace characters.
RECURSIVE split_from(_, _, _)
split_from(s, i, cur) ==
    IF i > Len(s)
    THEN IF cur = <<>> THEN <<>> ELSE <<cur>>
    ELSE IF IsSpace(s[i])
         THEN (IF cur = <<>> THEN <<>> ELSE <<cur>>) \o split_from(s, i + 1, <<>>)
         ELSE split_from(s, i + 1, Append(cur, s[i]))
split(s) == split_from(s, 1, <<>>)

\* ' '.join(words)
RECURSIVE join(_)
join(words) ==
    IF words = <<>> THEN <<>>
    ELSE IF Len(words) = 1 THEN words[1]
    ELSE words[1] \o <<" ">> \o join(Tail(words))

\* str.title(): a cased character is upper-cased unless the character before it
\* is cased, and lower-cased otherwise.
title(s) ==
    [i \in DOMAIN s |->
        IF i > 1 /\ IsCased(s[i - 1]) THEN ToLower(s[i]) ELSE ToUpper(s[i])]

\* A cleaner that forgets the title-casing step.
clean_feeder_name_untitled(name) ==
    join(split(replace(normalize_NFKD(strip(name)), NBSP, " ")))

clean_feeder_name(name) ==
    title(join(split(replace(normalize_NFKD(strip(name)), NBSP, " "))))

----------------------------------------------------------------------------
(* Floats: extended rationals *)

Abs(n) == IF n < 0 THEN -n ELSE n
Sign(n) == IF n > 0 THEN 1 ELSE IF n < 0 THEN -1 ELSE 0

RECURSIVE GCD(_, _)
GCD(a, b) == IF b = 0 THEN a ELSE GCD(b, a % b)

\* n / d for integers n and d, as numpy divides: x/0 is +-inf, 0/0 is nan.
Float(n, d) ==
    IF d = 0 THEN [num |-> Sign(n), den |-> 0]
    ELSE LET g == GCD(Abs(n), Abs(d))
         IN  [num |-> (Sign(d) * n) \div g, den |-> Abs(d) \div g]

Zero == [num |-> 0, den |-> 1]
NaN == [num |-> 0, den |-> 0]
IsFinite(x) == x.den # 0
IsNaN(x) == x = NaN

\* x / y for floats.
fdiv(x, y) ==
    IF IsNaN(x) \/ IsNaN(y) THEN NaN
    ELSE IF IsFinite(x) /\ IsFinite(y) THEN Float(x.num * y.den, x.den * y.num)
    ELSE IF IsFinite(x) THEN Zero
    ELSE IF IsFinite(y) THEN [num |-> x.num * (IF y.num < 0 THEN -1 ELSE 1), den |-> 0]
    ELSE NaN

----------------------------------------------------------------------------
(* Dummy feeder locations; latitude and longitude in thousandths of a degree *)

feeder_locations ==
       (<<"B","o","m","b","o"," ","1">> :> [lat |-> 600, lon |-> 32550])
    @@ (<<"K","o","l","o","l","o">> :> [lat |-> 335, lon |-> 32590])
    @@ (<<"B","o","m","b","o"," ","R","d"," ","I","n","d","u","s","t","r","i","a","l">> :> [lat |-> 345, lon |-> 32565])
    @@ (<<"L","u","w","e","r","o","/","K","y","a","m","p","i","s","i">> :> [lat |-> 830, lon |-> 32500])
    @@ (<<"B","o","m","b","o"," ","3","3">> :> [lat |-> 650, lon |-> 32520])
    @@ (<<"C","h","i","n","a"," ","G","o","l","d","e","n">> :> [lat |-> 370, lon |-> 32580])
    @@ (<<"W","a","b","i","g","a","l","o">> :> [lat |-> 330, lon |-> 32610])
    @@ (<<"M","a","t","u","g","a"," ","1">> :> [lat |-> 550, lon |-> 32480])
    @@ (<<"R","o","o","f","i","n","g","s"," ","1">> :> [lat |-> 520, lon |-> 32470])
    @@ (<<"S","t","e","e","l"," ","a","n","d"," ","T","u","b","e">> :> [lat |-> 510, lon |-> 32460])
    @@ (<<"M","a","t","u","g","a"," ","3">> :> [lat |-> 555, lon |-> 32490])
    @@ (<<"U","g","a","c","h","i","c">> :> [lat |-> 560, lon |-> 32450])

\* feeder_locations.get(x, {}).get("lat", None) and the same for "lon"
location_get(x, coord) ==
    IF x \in DOMAIN feeder_locations THEN Some(feeder_locations[x][coord]) ELSE Null

----------------------------------------------------------------------------
(* Worksheet rows.  A cell is [kind, v]: kind "num" is a number, kind      *)
(* "time" a day-first timestamp of v hours, kind "text" anything else      *)
(* (empty, "n/a", ...), which errors="coerce" turns into NaN / NaT.        *)

HoursPerDay == 24
DaysPerWeek == 7

to_datetime(cell) == IF cell.kind = "time" THEN Some(cell.v) ELSE Null
to_numeric(cell) == IF cell.kind = "num" THEN Some(cell.v) ELSE Null

\* (Restoration Time - Interruption Time).dt.total_seconds() / 3600
duration_hr(restoration, interruption) ==
    IF IsNull(restoration) \/ IsNull(interruption) THEN Null
    ELSE Some(Val(restoration) - Val(interruption))

\* .dt.date and .dt.strftime("%Y-W%U"): the day and the Sunday-based week number
dt_date(t) == IF IsNull(t) THEN Null ELSE Some(Val(t) \div HoursPerDay)
dt_week(t) == IF IsNull(t) THEN Null ELSE Some(Val(t) \div (HoursPerDay * DaysPerWeek))

\* One row of a worksheet after the loop body.
process_row(raw, month) ==
    LET name == clean_feeder_name(raw.FeederName)
        it == to_datetime(raw.InterruptionTime)
        rt == to_datetime(raw.RestorationTime)
    IN  [Feeder |-> name,
         Month |-> month,
         Duration |-> duration_hr(rt, it),
         CustomerNo |-> to_numeric(raw.CustomerNo),
         Date |-> dt_date(it),
         Week |-> dt_week(it),
         Latitude |-> location_get(name, "lat"),
         Longitude |-> location_get(name, "lon")]

process_worksheet(ws) == [i \in DOMAIN ws.rows |-> process_row(ws.rows[i], ws.title)]

\* The loop over spreadsheet.worksheets(): all_data, skipping worksheets without records.
RECURSIVE load_all_data(_)
load_all_data(wss) ==
    IF wss = <<>> THEN <<>>
    ELSE (IF Head(wss).rows = <<>> THEN <<>> ELSE <<process_worksheet(Head(wss))>>)
         \o load_all_data(Tail(wss))

\* pd.concat(all_data, ignore_index=True) for a non-empty all_data
RECURSIVE concat(_)
concat(frames) == IF frames = <<>> THEN <<>> ELSE Head(frames) \o concat(Tail(frames))

----------------------------------------------------------------------------
(* compute_metrics *)

\* Series.sum(), which skips NaN; 0 for an empty or all-NaN series
RECURSIVE sum(_)
sum(s) ==
    IF s = <<>> THEN 0
    ELSE (IF IsNull(Head(s)) THEN 0 ELSE Val(Head(s))) + sum(Tail(s))

\* Counts a value again each time it follows a different one.
nunique_runs(s) ==
    Cardinality({i \in DOMAIN s : NotNull(s[i]) /\ (i = 1 \/ s[i - 1] # s[i])})

\* Series.nunique(): the number of distinct non-NaN values
nunique(s) == Cardinality({Val(s[i]) : i \in {j \in DOMAIN s : NotNull(s[j])}})

\* g["Duration (hr)"] * g["Customer No"], NaN where either is NaN
weighted_duration(g) ==
    [i \in DOMAIN g |->
        IF IsNull(g[i].Duration) \/ IsNull(g[i].CustomerNo) THEN Null
        ELSE Some(Val(g[i].Duration) * Val(g[i].CustomerNo))]

customer_no(g) == [i \in DOMAIN g |-> g[i].CustomerNo]

\* The lambda applied to each group g (a sequence of rows).
SAIDI_of(g) ==
    IF sum(customer_no(g)) > 0
    THEN Float(sum(weighted_duration(g)), sum(customer_no(g)))
    ELSE Zero
\* Counts only the rows that have a customer count.
SAIFI_of_dropna(g) ==
    IF nunique(customer_no(g)) > 0
    THEN Float(Cardinality({i \in DOMAIN g : NotNull(g[i].CustomerNo)}),
               nunique(customer_no(g)))
    ELSE Zero

SAIFI_of(g) ==
    IF nunique(customer_no(g)) > 0
    THEN Float(Len(g), nunique(customer_no(g)))
    ELSE Zero
CAIDI_of(g) ==
    IF nunique(customer_no(g)) > 0 /\ Len(g) > 0
    THEN fdiv(Float(sum(weighted_duration(g)), sum(customer_no(g))),
              Float(Len(g), nunique(customer_no(g))))
    ELSE Zero

NullableCols == {"Date", "Week"}
group_key(r, cols) == [i \in DOMAIN cols |-> r[cols[i]]]
\* groupby drops the rows with a NaN / NaT in a key column
key_is_na(r, cols) == \E i \in DOMAIN cols : cols[i] \in NullableCols /\ IsNull(r[cols[i]])
group_rows(df, cols, k) ==
    SelectSeq(df, LAMBDA r : ~key_is_na(r, cols) /\ group_key(r, cols) = k)
group_keys(df, cols) ==
    {group_key(df[i], cols) : i \in {j \in DOMAIN df : ~key_is_na(df[j], cols)}}

compute_metrics(df, group_cols) ==
    {LET g == group_rows(df, group_cols, k)
     IN  [c \in {group_cols[i] : i \in DOMAIN group_cols} \cup {"SAIDI", "SAIFI", "CAIDI"} |->
            CASE c = "SAIDI" -> SAIDI_of(g)
              [] c = "SAIFI" -> SAIFI_of(g)
              [] c = "CAIDI" -> CAIDI_of(g)
              [] OTHER -> g[1][c]]
     : k \in group_keys(df, group_cols)}

DailyCols == <<"Feeder", "Month", "Date">>
WeeklyCols == <<"Feeder", "Month", "Week">>
MonthlyCols == <<"Feeder", "Month">>

----------------------------------------------------------------------------
(* Sidebar selection and the tables handed to the charts *)

Periods == {"Daily", "Weekly", "Monthly"}
NoWeek == [kind |-> "none", week |-> Null]          \* selected_week = None
AllWeeks == [kind |-> "all", week |-> Null]         \* "All Weeks"
WeekChoice(w) == [kind |-> "week", week |-> w]      \* one of week_options

\* selected_week and selected_week != "All Weeks"
is_specific_week(w) == w.kind = "week"
\* column == selected_week, which is False for NaN
week_eq(a, w) == NotNull(a) /\ NotNull(w.week) /\ a = w.week

month_options(df) == {df[i].Month : i \in DOMAIN df}
feeder_options(df, m) == {df[i].Feeder : i \in {j \in DOMAIN df : df[j].Month = m}}
week_values(df, m) == {df[i].Week : i \in {j \in DOMAIN df : df[j].Month = m}}
\* sorted() raises TypeError when it has to compare a NaN with a week label
weeks_sortable(df, m) == ~(Null \in week_values(df, m) /\ week_values(df, m) # {Null})
week_choices(df, m, p) ==
    IF p = "Weekly" THEN {AllWeeks} \cup {WeekChoice(w) : w \in week_values(df, m)}
    ELSE {NoWeek}

\* Filters the table left by the previous selection instead of weekly_metrics.
select_metrics_df_carried(p, w, daily, weekly, monthly) ==
    CASE p = "Daily" -> daily
      [] p = "Weekly" ->
            IF is_specific_week(w)
            THEN {r \in (IF group_field = "Week" THEN metrics_df ELSE weekly) : week_eq(r.Week, w)}
            ELSE weekly
      [] OTHER -> monthly

select_metrics_df(p, w, daily, weekly, monthly) ==
    CASE p = "Daily" -> daily
      [] p = "Weekly" ->
            IF is_specific_week(w) THEN {r \in weekly : week_eq(r.Week, w)} ELSE weekly
      [] OTHER -> monthly

select_group_field(p) ==
    CASE p = "Daily" -> "Date" [] p = "Weekly" -> "Week" [] OTHER -> "Month"

select_filtered_metrics(mdf, m, f) == {r \in mdf : r.Month = m /\ r.Feeder = f}

select_feeder_data(mdf, p, m, w) ==
    LET data == {r \in mdf : r.Month = m}
    IN  IF p = "Weekly" /\ is_specific_week(w)
        THEN {r \in data : week_eq(r.Week, w)} ELSE data

select_trend_data(mdf, f) == {r \in mdf : r.Feeder = f}

select_df_month(df, p, m, w) ==
    LET rows == SelectSeq(df, LAMBDA r : r.Month = m)
    IN  IF p = "Weekly" /\ is_specific_week(w)
        THEN SelectSeq(rows, LAMBDA r : week_eq(r.Week, w)) ELSE rows

\* sort_values(group_field).groupby("Feeder Name").tail(1)
latest_per_feeder(rows, gf) ==
    {r \in rows : \A q \in rows :
        q.Feeder = r.Feeder => (gf = "Month" \/ Val(q[gf]) <= Val(r[gf]))}

select_map_df(mdf, df, p, m, w, gf) ==
    LET map_metrics == select_feeder_data(mdf, p, m, w)
        latest_metrics == latest_per_feeder(map_metrics, gf)
        locations == {[Feeder |-> df[i].Feeder, Latitude |-> df[i].Latitude,
                       Longitude |-> df[i].Longitude] : i \in DOMAIN df}
        merged == {[c \in DOMAIN r \cup {"Latitude", "Longitude"} |->
                       IF c \in {"Latitude", "Longitude"} THEN l[c] ELSE r[c]]
                   : <<r, l>> \in {x \in latest_metrics \X locations : x[1].Feeder = x[2].Feeder}}
    IN  {r \in merged : NotNull(r.Latitude) /\ NotNull(r.Longitude)}

----------------------------------------------------------------------------
(* The script *)

\* Lines 68-100: load every worksheet and concatenate.  pd.concat raises
\* ValueError("No objects to concatenate") when all_data is empty.
LoadWorksheets ==
    /\ pc = "start"
    /\ IF load_all_data(sheets) = <<>>
       THEN pc' = "error" /\ UNCHANGED df_all
       ELSE pc' = "loaded" /\ df_all' = concat(load_all_data(sheets))
    /\ UNCHANGED <<sheets, daily_metrics, weekly_metrics, monthly_metrics, period,
                   selected_month, selected_feeder, selected_week, metrics_df,
                   group_field, filtered_metrics, feeder_data, trend_data, df_month, map_df>>

\* Lines 102-105
BuildMetrics ==
    /\ pc = "loaded"
    /\ daily_metrics' = compute_metrics(df_all, DailyCols)
    /\ weekly_metrics' = compute_metrics(df_all, WeeklyCols)
    /\ monthly_metrics' = compute_metrics(df_all, MonthlyCols)
    /\ pc' = "built"
    /\ UNCHANGED <<sheets, df_all, period, selected_month, selected_feeder, selected_week,
                   metrics_df, group_field, filtered_metrics, feeder_data, trend_data,
                   df_month, map_df>>

\* Lines 107-232 with the widgets returning p, m, f and w.
Render(p, m, f, w) ==
    /\ period' = p
    /\ selected_month' = m
    /\ selected_feeder' = f
    /\ selected_week' = w
    /\ metrics_df' = select_metrics_df(p, w, daily_metrics', weekly_metrics', monthly_metrics')
    /\ group_field' = select_group_field(p)
    /\ filtered_metrics' = select_filtered_metrics(metrics_df', m, f)
    /\ feeder_data' = select_feeder_data(metrics_df', p, m, w)
    /\ trend_data' = select_trend_data(metrics_df', f)
    /\ df_month' = select_df_month(df_all', p, m, w)
    /\ map_df' = select_map_df(metrics_df', df_all', p, m, w, group_field')
    /\ pc' = "rendered"

\* Lines 107-121 when sorted(week_options) raises: the run stops with
\* selected_week = None and before metrics_df or any chart table exists.
RenderFails(m, f) ==
    /\ period' = "Weekly"
    /\ selected_month' = m
    /\ selected_feeder' = f
    /\ selected_week' = NoWeek
    /\ metrics_df' = {}
    /\ group_field' = ""
    /\ filtered_metrics' = {}
    /\ feeder_data' = {}
    /\ trend_data' = {}
    /\ df_month' = <<>>
    /\ map_df' = {}
    /\ pc' = "error"

Widgets(p, m, f, w) ==
    IF p = "Weekly" /\ ~weeks_sortable(df_all', m) THEN RenderFails(m, f) ELSE Render(p, m, f, w)

\* The rest of the first run.  (Any option may be the one the widgets return:
\* each is the default for some spreadsheet or the value a later run is given.)
SelectAndRender ==
    /\ pc = "built"
    /\ UNCHANGED <<sheets, df_all, daily_metrics, weekly_metrics, monthly_metrics>>
    /\ \E p \in Periods : \E m \in month_options(df_all) :
       \E f \in feeder_options(df_all, m) : \E w \in week_choices(df_all, m, p) :
            Widgets(p, m, f, w)

\* A widget changes after a run that got as far as the sidebar: Streamlit runs
\* the script again from the top on the same spreadsheet, with the widgets
\* returning the new values.
Rerun ==
    /\ pc \in {"rendered", "error"}
    /\ load_all_data(sheets) # <<>>
    /\ UNCHANGED sheets
    /\ df_all' = concat(load_all_data(sheets))
    /\ daily_metrics' = compute_metrics(df_all', DailyCols)
    /\ weekly_metrics' = compute_metrics(df_all', WeeklyCols)
    /\ monthly_metrics' = compute_metrics(df_all', MonthlyCols)
    /\ \E p \in Periods : \E m \in month_options(df_all') :
       \E f \in feeder_options(df_all', m) : \E w \in week_choices(df_all', m, p) :
            Widgets(p, m, f, w)

----------------------------------------------------------------------------
(* Inputs *)

Junk == [kind |-> "text", v |-> 0]
Time(v) == [kind |-> "time", v |-> v]
Num(v) == [kind |-> "num", v |-> v]

SeqsUpTo(S, n) == UNION {[1..k -> S] : k \in 0..n}

RawRows(names, interruptions, restorations, customers) ==
    [FeederName : names, InterruptionTime : interruptions,
     RestorationTime : restorations, CustomerNo : customers]

Unset ==
    /\ pc = "start"
    /\ df_all = <<>>
    /\ daily_metrics = {}
    /\ weekly_metrics = {}
    /\ monthly_metrics = {}
    /\ period = "Daily"
    /\ selected_month = ""
    /\ selected_feeder = <<>>
    /\ selected_week = NoWeek
    /\ metrics_df = {}
    /\ group_field = ""
    /\ filtered_metrics = {}
    /\ feeder_data = {}
    /\ trend_data = {}
    /\ df_month = <<>>
    /\ map_df = {}

\* The dashboard: two monthly worksheets, few distinct cell values.
MaxRows == 2
DashNames == {<<"k","o","l","o","l","o"," ">>, <<"S","t","e","e","l"," ","a","n","d"," ","T","u","b","e">>}
DashRows == RawRows(DashNames, {Junk, Time(0), Time(168)}, {Time(170)}, {Num(1), Num(2)})

Init ==
    /\ \E jan \in SeqsUpTo(DashRows, MaxRows) :
       \E feb \in SeqsUpTo(DashRows, MaxRows - Len(jan)) :
            sheets = <<[title |-> "Jan", rows |-> jan], [title |-> "Feb", rows |-> feb]>>
    /\ Unset

Next == LoadWorksheets \/ BuildMetrics \/ SelectAndRender \/ Rerun

Spec == Init /\ [][Next]_vars

\* The metrics: one worksheet, every kind of cell.
MaxMetricRows == 2
MetricRows ==
    RawRows({<<"k","o","l","o","l","o">>}, {Junk, Time(0), Time(24)}, {Junk, Time(48)},
            {Junk, Num(0), Num(1), Num(2)})

InitMetrics ==
    /\ \E jan \in SeqsUpTo(MetricRows, MaxMetricRows) :
            sheets = <<[title |-> "Jan", rows |-> jan]>>
    /\ Unset

NextMetrics == LoadWorksheets \/ BuildMetrics

SpecMetrics == InitMetrics /\ [][NextMetrics]_vars

\* Row order: one worksheet, longer, with fewer distinct cells.
MaxOrderRows == 3
OrderRows ==
    RawRows({<<"k","o","l","o","l","o">>}, {Junk, Time(0), Time(24)}, {Time(48)},
            {Junk, Num(1), Num(2)})

InitOrder ==
    /\ \E jan \in SeqsUpTo(OrderRows, MaxOrderRows) :
            sheets = <<[title |-> "Jan", rows |-> jan]>>
    /\ Unset

SpecOrder == InitOrder /\ [][NextMetrics]_vars

\* Feeder names: one worksheet of two rows; the first name in lower case and
\* plain spaces, the second in any case and with either kind of space.
MaxNameLen == 4
PlainAlphabet == {"a", " "}
NameAlphabet == {"a", "A", " ", NBSP}
NameRow(n) ==
    [FeederName |-> n, InterruptionTime |-> Time(0), RestorationTime |-> Time(48),
     CustomerNo |-> Num(1)]

InitName ==
    /\ \E n1 \in SeqsUpTo(PlainAlphabet, MaxNameLen) :
       \E n2 \in SeqsUpTo(NameAlphabet, MaxNameLen) :
            sheets = <<[title |-> "Jan", rows |-> <<NameRow(n1), NameRow(n2)>>]>>
    /\ Unset

NextName == LoadWorksheets

SpecName == InitName /\ [][NextName]_vars

----------------------------------------------------------------------------
(* Properties *)

\* The worksheet rows in the order of df_all: row i of df_all is made from RawAll[i].
RECURSIVE raw_rows(_)
raw_rows(wss) == IF wss = <<>> THEN <<>> ELSE Head(wss).rows \o raw_rows(Tail(wss))
RawAll == raw_rows(sheets)

Tables == <<daily_metrics, weekly_metrics, monthly_metrics>>
TableCols == <<DailyCols, WeeklyCols, MonthlyCols>>
\* The rows of df_all behind row r of table t.
GroupOf(r, t) == group_rows(df_all, TableCols[t], group_key(r, TableCols[t]))
RECURSIVE SumOver(_, _)
SumOver(S, f) ==
    IF S = {} THEN 0 ELSE LET i == CHOOSE j \in S : TRUE IN f[i] + SumOver(S \ {i}, f)

\* C1: in every row of every table, CAIDI is SAIDI / SAIFI when SAIFI is not 0
\* and 0 otherwise, whatever the customer counts are.
C1_CaidiIsSaidiOverSaifi ==
    pc = "built" =>
        \A t \in DOMAIN Tables : \A r \in Tables[t] :
            IF r.SAIFI # Zero THEN r.CAIDI = fdiv(r.SAIDI, r.SAIFI) ELSE r.CAIDI = Zero

\* C2: SAIDI of a group is the sum of duration * customers over the sum of
\* customers, both sums over the same records (those that have both values),
\* when that customer sum is positive, and 0 otherwise.
C2_SaidiSameRecords ==
    pc = "built" =>
        \A t \in DOMAIN Tables : \A r \in Tables[t] :
            LET g == GroupOf(r, t)
                V == {i \in DOMAIN g : NotNull(g[i].Duration) /\ NotNull(g[i].CustomerNo)}
                num == SumOver(V, [i \in V |-> Val(g[i].Duration) * Val(g[i].CustomerNo)])
                den == SumOver(V, [i \in V |-> Val(g[i].CustomerNo)])
            IN  r.SAIDI = IF den > 0 THEN Float(num, den) ELSE Zero

C4_OrderIndependent ==
    pc = "built" =>
        \A s \in DOMAIN sheets : \A p \in Permutations(DOMAIN sheets[s].rows) :
            LET shuffled == [sheets EXCEPT ![s].rows = [i \in DOMAIN @ |-> @[p[i]]]]
                df == concat(load_all_data(shuffled))
            IN  /\ compute_metrics(df, DailyCols) = daily_metrics
                /\ compute_metrics(df, WeeklyCols) = weekly_metrics
                /\ compute_metrics(df, MonthlyCols) = monthly_metrics

\* Three different rows of one day with two distinct customer counts.
C4_Witness ==
    /\ pc = "built"
    /\ Len(df_all) = 3
    /\ Cardinality({df_all[i] : i \in DOMAIN df_all}) = 3
    /\ \E r \in weekly_metrics : Len(GroupOf(r, 2)) = 3 /\ r.SAIFI = Float(3, 2)
    /\ Cardinality(daily_metrics) = 2
WeeklyOfMonth == {r \in weekly_metrics : r.Month = selected_month}
WithoutLocation(r) == [c \in DOMAIN r \ {"Latitude", "Longitude"} |-> r[c]]
\* C5: the group field is Date, Week or Month by period; with Weekly and "All
\* Weeks" the bar chart gets exactly the weekly rows of the selected month, the
\* trend chart those of them of the selected feeder, and the map only rows of
\* them; with Weekly and one week every chart gets rows of that week only.
C5_PeriodSelection ==
    pc = "rendered" =>
        /\ group_field = (CASE period = "Daily" -> "Date"
                            [] period = "Weekly" -> "Week"
                            [] period = "Monthly" -> "Month")
        /\ (period = "Weekly" /\ selected_week = AllWeeks) =>
                /\ feeder_data = WeeklyOfMonth
                /\ trend_data = {r \in WeeklyOfMonth : r.Feeder = selected_feeder}
                /\ \A r \in map_df : WithoutLocation(r) \in WeeklyOfMonth
        /\ (period = "Weekly" /\ selected_week.kind = "week") =>
                \A r \in feeder_data \cup trend_data \cup {WithoutLocation(x) : x \in map_df} :
                    Some(Val(r.Week)) = selected_week.week

\* C6: when no worksheet has a record the run does not end in an error.
C6_EmptyDatasetNoError ==
    (\A s \in DOMAIN sheets : sheets[s].rows = <<>>) => pc # "error"

\* Exact sum of two finite floats.
fadd(x, y) == Float(x.num * y.den + y.num * x.den, x.den * y.den)
DayWeight(d) ==
    LET g == GroupOf(d, 1)
        counted == {i \in DOMAIN g : NotNull(g[i].CustomerNo)}
    IN  SumOver(counted, [i \in counted |-> Val(g[i].CustomerNo)])
RECURSIVE WeightedSaidi(_)
WeightedSaidi(days) ==
    IF days = {} THEN Zero
    ELSE LET d == CHOOSE x \in days : TRUE
         IN  fadd(Float(d.SAIDI.num * DayWeight(d), d.SAIDI.den), WeightedSaidi(days \ {d}))
RECURSIVE TotalWeight(_)
TotalWeight(days) ==
    IF days = {} THEN 0
    ELSE LET d == CHOOSE x \in days : TRUE IN DayWeight(d) + TotalWeight(days \ {d})

\* C7: for every feeder and month, the daily SAIDI values weighted by the day's
\* customer-count sum, over the total of the weights, equal the monthly SAIDI.
C7_DailyReconcilesMonthly ==
    pc = "built" =>
        \A m \in monthly_metrics :
            LET days == {d \in daily_metrics : d.Feeder = m.Feeder /\ d.Month = m.Month}
            IN  TotalWeight(days) > 0 =>
                    fdiv(WeightedSaidi(days), Float(TotalWeight(days), 1)) = m.SAIDI

\* What is left of a name without its letter case and its spacing.
FormatKey(s) == LET w == join(split(s)) IN [i \in DOMAIN w |-> ToLower(w[i])]

\* C8: two rows whose raw feeder names differ only in letter case, in leading or
\* trailing whitespace, in the amount of internal whitespace or in the kind of
\* space get the same feeder name, hence the same group.
C8_SameNameModuloFormat ==
    pc = "loaded" =>
        \A i \in DOMAIN df_all : \A j \in DOMAIN df_all :
            FormatKey(RawAll[i].FeederName) = FormatKey(RawAll[j].FeederName)
                => df_all[i].Feeder = df_all[j].Feeder

\* "a  a" and a three-character name with an upper-case letter and a no-break space.
C8_Witness ==
    /\ pc = "loaded"
    /\ RawAll[1].FeederName = <<"a", " ", " ", "a">>
    /\ RawAll[2].FeederName = <<"A", NBSP, "a">>
    /\ df_all[1].Feeder = df_all[2].Feeder
    /\ df_all[1].Feeder = <<"A", " ", "A">>

ChosenRows ==
    LET table == CASE period = "Daily" -> daily_metrics
                   [] period = "Weekly" -> weekly_metrics
                   [] period = "Monthly" -> monthly_metrics
    IN  {r \in table : selected_week.kind = "week" => week_eq(r.Week, selected_week)}
SelectionIsStateless ==
    pc = "rendered" =>
        /\ metrics_df = ChosenRows
        /\ filtered_metrics =
            {r \in ChosenRows : r.Month = selected_month /\ r.Feeder = selected_feeder}
        /\ feeder_data = {r \in ChosenRows : r.Month = selected_month}
        /\ trend_data = {r \in ChosenRows : r.Feeder = selected_feeder}
TablesKept ==
    pc \in {"built", "rendered", "error"} =>
        /\ daily_metrics' = daily_metrics
        /\ weekly_metrics' = weekly_metrics
        /\ monthly_metrics' = monthly_metrics

\* C9: once computed the three tables never change, and what a rendered run
\* shows is a function of the tables and of the current period, month, feeder
\* and week alone.
C9_TablesFixedSelectionStateless == [](SelectionIsStateless) /\ [][TablesKept]_vars

\* One week of a month with two weeks is shown.
C9_Witness ==
    /\ pc = "rendered"
    /\ period = "Weekly"
    /\ selected_week.kind = "week"
    /\ filtered_metrics # {}
    /\ \E r \in weekly_metrics :
        /\ r.Month = selected_month
        /\ r.Feeder = selected_feeder
        /\ r \notin filtered_metrics

\* C10: every key of feeder_locations is a fixed point of clean_feeder_name, so
\* a row whose raw feeder name is a key of the table gets its coordinates.
C10_LocationKeysReachable ==
    pc = "loaded" =>
        /\ \A k \in DOMAIN feeder_locations : clean_feeder_name(k) = k
        /\ \A i \in DOMAIN df_all :
            RawAll[i].FeederName \in DOMAIN feeder_locations
                => NotNull(df_all[i].Latitude) /\ NotNull(df_all[i].Longitude)
====
